---- MODULE Spec2Model ----
(***************************************************************************)
(* Model of collect_mc_metrics.py: the memcached text-protocol client      *)
(* (MemcachedStats), the stats normaliser (wrap_stats), the per-port       *)
(* collector (collect_instances) and the __main__ push.                    *)
(*                                                                         *)
(* Conventions                                                             *)
(*  - A Python dict is a sequence of <<key, value>> pairs in insertion     *)
(*    order, with at most one pair per key.                                *)
(*  - A numeric string is <<kind, n, d>>: kind "int" for the digits the    *)
(*    server sent ("50"), kind "float" for the text str() makes of a       *)
(*    float ("50.0"); n/d is the number it denotes, in lowest terms.       *)
(*    IEEE rounding is not modelled: a float is the rational it stands     *)
(*    for.                                                                 *)
(*  - The byte stream of a connection is a sequence of tokens:             *)
(*    <<"STAT", key, value>> is the line "STAT key value\r\n",             *)
(*    <<"JUNK">> a fragment no pattern matches, <<"END">> the text "END"   *)
(*    and <<"CRLF">> the "\r\n" that follows it.                           *)
(***************************************************************************)
EXTENDS Integers, Sequences, FiniteSets, TLC

VARIABLES
    pc,        \* position of the program: __main__ and collect_instances
    ports,     \* ports = MemcachedStats.get_instances()
    todo,      \* ports the for loop has not visited yet
    port,      \* loop variable of collect_instances (0 outside the loop)
    client,    \* per port: MemcachedStats._client, "None" or "open"
    closeCalled, \* per port: conn.close() has been invoked
    peer,      \* per port: the server end: "idle", "up", "closed", "reset", "silent"
    wire,      \* per port: tokens the server has still to send
    cookedq,   \* per port: tokens received and not yet returned (Telnet.cookedq)
    eof,       \* per port: Telnet.eof, the client has seen the stream end
    fate,      \* per port: how its try block ended ("none" while it has not)
    text,      \* the value command() returned for the current port
    stats,     \* local variable stats of collect_instances
    data,      \* local variable data of collect_instances
    result,    \* __main__: what collect_instances returned
    posted,    \* number of requests.post calls made
    wrapIn,    \* argument of a direct call of wrap_stats
    wrapOut,   \* what that call returned
    wrapAgain, \* what wrap_stats returned when called on wrapOut.ret
    cache,     \* what the memcached server holds: slab ids and items per slab
    classClient, \* the class attribute MemcachedStats._client
    instClient,  \* per Instance: its own attribute _client (-1: it has none)
    made,      \* the Instances constructed so far
    opened,    \* per Instance: connections it has opened (telnetlib.Telnet made)
    nextConn,  \* number of connections opened so far; they are numbered from 1
    stream,    \* per connection: tokens sent by the server and not yet returned
    quit,      \* per connection: quit has been written on it
    last       \* the last operation called on an Instance and what came of it

vars == <<pc, ports, todo, port, client, closeCalled, peer, wire, cookedq, eof,
          fate, text, stats, data, result, posted, wrapIn, wrapOut, wrapAgain,
          cache, classClient, instClient, made, opened, nextConn, stream, quit, last>>

\* the state of the Instances used directly, and of a second call of wrap_stats
instVars == <<cache, classClient, instClient, made, opened, nextConn, stream, quit, last>>

---------------------------------------------------------------------------
(* Bounds of the model *)

\* number of ports process discovery can report
MaxPorts == 2
\* number of required keys a wrap_stats input may lack
MaxMissing == 2
\* number of tokens the server sends at a time
MaxSegment == 6

---------------------------------------------------------------------------
(* Numbers: float(), arithmetic and str() *)

RECURSIVE Gcd(_, _)
Gcd(a, b) == IF b = 0 THEN a ELSE Gcd(b, a % b)

\* a non-negative rational <<n, d>> in lowest terms
Reduce(r) ==
    LET g == Gcd(r[1], r[2]) IN <<r[1] \div g, r[2] \div g>>

\* the digits "n" as the server sends them
IntStr(n) == <<"int", n, 1>>

\* float(s) for a numeric string s
Float(s) == <<s[2], s[3]>>

\* str(x) of a float x: "50.0", "0.0", "75.0"
Str(x) == <<"float", Reduce(x)[1], Reduce(x)[2]>>

FMul(k, x) == <<k * x[1], x[2]>>
FAdd(x, y) == <<x[1] * y[2] + y[1] * x[2], x[2] * y[2]>>
FIsZero(x) == x[1] = 0
\* x / y for y # 0
FDiv(x, y) == <<x[1] * y[2], x[2] * y[1]>>

---------------------------------------------------------------------------
(* dict *)

Keys(d) == {d[i][1] : i \in 1..Len(d)}
Has(d, k) == k \in Keys(d)
IndexOf(d, k) == CHOOSE i \in 1..Len(d) : d[i][1] = k
Get(d, k) == d[IndexOf(d, k)][2]

\* d[k] = v: in place when k is a key already, appended otherwise
DictSet(d, k, v) ==
    IF Has(d, k)
    THEN [d EXCEPT ![IndexOf(d, k)] = <<k, v>>]
    ELSE Append(d, <<k, v>>)

\* del d[k], for a key k of d
DictDel(d, k) == SelectSeq(d, LAMBDA kv : kv[1] # k)

\* dict(pairs): later pairs overwrite earlier ones with the same key
RECURSIVE DictOf(_)
DictOf(pairs) ==
    IF pairs = <<>> THEN <<>>
    ELSE LET n == Len(pairs)
         IN DictSet(DictOf(SubSeq(pairs, 1, n - 1)), pairs[n][1], pairs[n][2])

---------------------------------------------------------------------------
(* wrap_stats *)

HitOps == <<"get", "incr", "decr", "delete">>

ZeroRatio == <<"float", 0, 1>>

\* del stats[k]
DelStmt(st, k) ==
    IF st.exc # "none" THEN st
    ELSE IF Has(st.stats, k) THEN [st EXCEPT !.stats = DictDel(st.stats, k)]
    ELSE [st EXCEPT !.exc = "KeyError"]

\* UsageStmt with the division and the assignment before the del statements
\* take effect: usage is stored even though a later lookup fails
UsageStmt_Eager(st) ==
    IF Has(st.stats, "bytes") /\ Has(st.stats, "limit_maxbytes")
       /\ ~FIsZero(Float(Get(st.stats, "limit_maxbytes")))
    THEN [st EXCEPT !.stats =
             DictSet(st.stats, "usage",
                     Str(FDiv(FMul(100, Float(Get(st.stats, "bytes"))),
                              Float(Get(st.stats, "limit_maxbytes")))))]
    ELSE IF st.exc # "none" THEN st
    ELSE IF ~Has(st.stats, "bytes") \/ ~Has(st.stats, "limit_maxbytes")
    THEN [st EXCEPT !.exc = "KeyError"]
    ELSE [st EXCEPT !.exc = "ZeroDivisionError"]

\* stats['usage'] = str(100 * float(stats['bytes']) / float(stats['limit_maxbytes']))
UsageStmt(st) ==
    IF st.exc # "none" THEN st
    ELSE IF ~Has(st.stats, "bytes") \/ ~Has(st.stats, "limit_maxbytes")
    THEN [st EXCEPT !.exc = "KeyError"]
    ELSE LET b == Float(Get(st.stats, "bytes"))
             m == Float(Get(st.stats, "limit_maxbytes"))
         IN IF FIsZero(m) THEN [st EXCEPT !.exc = "ZeroDivisionError"]
            ELSE [st EXCEPT !.stats = DictSet(st.stats, "usage", Str(FDiv(FMul(100, b), m)))]

\* RatioStmt without its try: the ZeroDivisionError leaves the statement
RatioStmt_NoTry(st, op) ==
    IF st.exc # "none" THEN st
    ELSE IF ~Has(st.stats, op \o "_hits") \/ ~Has(st.stats, op \o "_misses")
    THEN [st EXCEPT !.exc = "KeyError"]
    ELSE LET h == Float(Get(st.stats, op \o "_hits"))
             m == Float(Get(st.stats, op \o "_misses"))
             den == FAdd(h, m)
         IN IF FIsZero(den) THEN [st EXCEPT !.exc = "ZeroDivisionError"]
            ELSE [st EXCEPT !.stats =
                     DictSet(st.stats, op \o "_hit_ratio", Str(FDiv(FMul(100, h), den)))]

\* try: stats['<op>_hit_ratio'] = str(100 * hits / (hits + misses))
\* except ZeroDivisionError: stats['<op>_hit_ratio'] = '0.0'
RatioStmt(st, op) ==
    IF st.exc # "none" THEN st
    ELSE IF ~Has(st.stats, op \o "_hits") \/ ~Has(st.stats, op \o "_misses")
    THEN [st EXCEPT !.exc = "KeyError"]
    ELSE LET h == Float(Get(st.stats, op \o "_hits"))
             m == Float(Get(st.stats, op \o "_misses"))
             den == FAdd(h, m)
             ratio == IF FIsZero(den) THEN ZeroRatio ELSE Str(FDiv(FMul(100, h), den))
         IN [st EXCEPT !.stats = DictSet(st.stats, op \o "_hit_ratio", ratio)]

\* the statements of the try block, in order
WrapBody(s) ==
    LET s0 == [stats |-> s, exc |-> "none"]
        s1 == DelStmt(s0, "pid")
        s2 == DelStmt(s1, "time")
        s3 == UsageStmt(s2)
        s4 == RatioStmt(s3, HitOps[1])
        s5 == RatioStmt(s4, HitOps[2])
        s6 == RatioStmt(s5, HitOps[3])
    IN RatioStmt(s6, HitOps[4])

WrapExcept_Empty(st) ==
    IF st.exc = "KeyError" THEN [stats |-> <<>>, exc |-> "none"] ELSE st

\* except KeyError: logging.exception(msg)
WrapExcept(st) == IF st.exc = "KeyError" THEN [st EXCEPT !.exc = "none"] ELSE st

WrapFinally_Propagate(st) == [ret |-> st.stats, raised |-> st.exc]

\* finally: return stats -- the return discards an exception still in flight
WrapFinally(st) == [ret |-> st.stats, raised |-> "none"]

\* wrap_stats(stats): ret is the map returned, raised the exception that
\* reaches the caller ("none" when it returns)
wrap_stats(s) == WrapFinally(WrapExcept(WrapBody(s)))

---------------------------------------------------------------------------
(* The server's reply to "stats" *)

PairKeys == {HitOps[i] \o "_hits" : i \in 1..4} \cup {HitOps[i] \o "_misses" : i \in 1..4}
RequiredKeys == {"bytes", "limit_maxbytes"} \cup PairKeys
DroppedKeys == {"pid", "time"}

\* hits and misses a pair may report
HitVals == {0, 3}
MissVals == {0, 1}
HitMiss == [1..4 -> HitVals \X MissVals]
\* limit_maxbytes a server may report
LimitVals == {0, 100}

\* the STAT lines of one reply in the order memcached prints them, without the
\* lines for the keys in missing; hm[i] is <<hits, misses>> of HitOps[i]
AllLines(limit, hm) ==
    << <<"STAT", "pid", IntStr(1)>>,
       <<"STAT", "uptime", IntStr(9)>>,
       <<"STAT", "time", IntStr(7)>>,
       <<"JUNK">>,
       <<"STAT", "cmd_get", IntStr(4)>>,
       <<"STAT", "get_hits", IntStr(hm[1][1])>>,
       <<"STAT", "get_misses", IntStr(hm[1][2])>>,
       <<"STAT", "delete_misses", IntStr(hm[4][2])>>,
       <<"STAT", "delete_hits", IntStr(hm[4][1])>>,
       <<"STAT", "incr_misses", IntStr(hm[2][2])>>,
       <<"STAT", "incr_hits", IntStr(hm[2][1])>>,
       <<"STAT", "decr_misses", IntStr(hm[3][2])>>,
       <<"STAT", "decr_hits", IntStr(hm[3][1])>>,
       <<"STAT", "bytes", IntStr(50)>>,
       <<"STAT", "limit_maxbytes", IntStr(limit)>> >>

StatLines(missing, limit, hm) ==
    SelectSeq(AllLines(limit, hm), LAMBDA t : t[1] # "STAT" \/ t[2] \notin missing)

EndToken == <<"END">>
Reply(lines) == lines \o <<EndToken, <<"CRLF">> >>

\* _stat_regex.findall(text): the <<key, value>> of every STAT line of text
RECURSIVE StatPairs(_)
StatPairs(t) ==
    IF t = <<>> THEN <<>>
    ELSE IF Head(t)[1] = "STAT"
         THEN << <<Head(t)[2], Head(t)[3]>> >> \o StatPairs(Tail(t))
         ELSE StatPairs(Tail(t))

\* MemcachedStats.stats(), given the text command('stats') returned
StatsOf(t) == DictOf(StatPairs(t))

---------------------------------------------------------------------------
(* Direct calls of wrap_stats *)

\* the maps wrap_stats is called with: what stats() makes of a reply that lacks
\* up to MaxMissing of the keys wrap_stats reads
WrapInputs ==
    { StatPairs(StatLines(missing, limit, hm)) :
        missing \in {m \in SUBSET (DroppedKeys \cup RequiredKeys) : Cardinality(m) <= MaxMissing},
        limit \in LimitVals,
        hm \in HitMiss }

NoCall == [ret |-> <<>>, raised |-> "none"]

WrapInit ==
    /\ pc = "wrap_call"
    /\ wrapIn \in WrapInputs
    /\ wrapOut = NoCall
    /\ wrapAgain = NoCall

\* wrap_stats(wrapIn)
WrapCall ==
    /\ pc = "wrap_call"
    /\ wrapOut' = wrap_stats(wrapIn)
    /\ pc' = "wrap_done"
    /\ UNCHANGED <<ports, todo, port, client, closeCalled, peer, wire, cookedq, eof,
                   fate, text, stats, data, result, posted, wrapIn, wrapAgain, instVars>>

\* wrap_stats applied to the map it has just returned
WrapAgain ==
    /\ pc = "wrap_done"
    /\ wrapAgain' = wrap_stats(wrapOut.ret)
    /\ pc' = "wrap_twice"
    /\ UNCHANGED <<ports, todo, port, client, closeCalled, peer, wire, cookedq, eof,
                   fate, text, stats, data, result, posted, wrapIn, wrapOut, instVars>>

---------------------------------------------------------------------------
(* collect_instances: metric points *)

Ports == 11211..(11211 + MaxPorts - 1)

step == 60

gauges ==
    {"get_hit_ratio", "incr_hit_ratio", "decr_hit_ratio", "delete_hit_ratio", "usage",
     "curr_connections", "total_connections", "bytes", "pointer_size", "uptime",
     "limit_maxbytes", "threads", "curr_items", "total_items", "connection_structures"}

\* tags = 'port=%s' % port
Tags(p) == "port=" \o ToString(p)

\* Point with the gauge test inverted
Point_Inverted(p, key, value) ==
    [metric |-> "mc" \o "." \o key \o (IF key \notin gauges THEN "" ELSE "_cps"),
     endpoint |-> "hostname",
     timestamp |-> "now",
     step |-> step,
     value |-> Float(value),
     counterType |-> IF key \notin gauges THEN "GAUGE" ELSE "COUNTER",
     tags |-> Tags(p)]

\* the dict i built for one key of stats
Point(p, key, value) ==
    [metric |-> "mc" \o "." \o key \o (IF key \in gauges THEN "" ELSE "_cps"),
     endpoint |-> "hostname",
     timestamp |-> "now",
     step |-> step,
     value |-> Float(value),
     counterType |-> IF key \in gauges THEN "GAUGE" ELSE "COUNTER",
     tags |-> Tags(p)]

\* for key in stats: ... data.append(i)
Points(p, st) == [i \in 1..Len(st) |-> Point(p, st[i][1], st[i][2])]

---------------------------------------------------------------------------
(* collect_instances and __main__ *)

\* replies a server may give to "stats"
DefaultHitMiss == [i \in 1..4 |-> IF i = 1 THEN <<3, 1>> ELSE <<0, 0>>]
StatsReplies ==
    { Reply(StatLines({}, 100, DefaultHitMiss)),
      Reply(StatLines(RequiredKeys \cup {"time"}, 100, DefaultHitMiss)) }

Unset == [kind |-> "unset", points |-> <<>>]
None == [kind |-> "None", points |-> <<>>]
List(d) == [kind |-> "list", points |-> d]

\* "if result is not None" in place of "if result"
Truthy_NotNone(r) == r.kind = "list"

\* Python truth value of result
Truthy(r) == r.kind = "list" /\ r.points # <<>>

HasEnd(q) == \E i \in 1..Len(q) : q[i] = EndToken
FirstEnd(q) == CHOOSE i \in 1..Len(q) : q[i] = EndToken /\ \A j \in 1..(i - 1) : q[j] # EndToken

Min(a, b) == IF a < b THEN a ELSE b

---------------------------------------------------------------------------
(* MemcachedStats used directly: the server, the replies, the parsers *)

\* number of Instances constructed
MaxInsts == 2

Insts == 1..MaxInsts
\* connections that can be told apart: room for two per Instance
Conns == 1..(2 * MaxInsts)

\* key_details(limit=100)
DumpLimit == 100

Item(key, size, exp) == <<"ITEM", key, size, exp>>
Foo == Item("foo", "10 b", "123 s")
Bar == Item("bar", "5 b", "456 s")
\* the line "ITEM WEEKEND [1 b; 0 s]\r\n": the text END occurs in the key name
Weekend == << <<"FRAG", "ITEM WEEK">>, EndToken, <<"FRAG", " [1 b; 0 s]">> >>

\* what a server may hold: the slab ids "stats items" reports, in order, and
\* the lines "stats cachedump <id>" prints for slab 1 and slab 2
Caches ==
    { [slabs |-> <<1>>, items |-> << <<Foo, Bar>>, <<>> >>],
      [slabs |-> <<2, 1, 1>>, items |-> << <<Bar>>, <<Foo>> >>],
      [slabs |-> <<1, 2>>, items |-> << <<Item("k", "9 b", "0 s")>>, <<Item("k", "5 b", "0 s")>> >>],
      [slabs |-> <<1, 2>>, items |-> << Weekend, <<Bar>> >>] }

\* the first n elements of q
Take(q, n) == SubSeq(q, 1, Min(n, Len(q)))

\* the server's reply to a command; a cachedump prints at most as many items
\* as asked for (a line is one token, or the three tokens of Weekend)
ReplyTo(cmd) ==
    IF cmd[1] = "stats" THEN Reply(StatLines({}, 100, DefaultHitMiss))
    ELSE IF cmd[1] = "stats items"
    THEN Reply([k \in 1..Len(cache.slabs) |-> <<"SLAB", cache.slabs[k]>>])
    ELSE Reply(IF cache.items[cmd[2]] = Weekend THEN Weekend
               ELSE Take(cache.items[cmd[2]], cmd[3]))

\* _slab_regex.findall(text): the ids of the lines "STAT items:<id>:number n"
RECURSIVE SlabIds(_)
SlabIds(t) ==
    IF t = <<>> THEN <<>>
    ELSE IF Head(t)[1] = "SLAB" THEN <<Head(t)[2]>> \o SlabIds(Tail(t))
    ELSE SlabIds(Tail(t))

\* _key_regex.findall(text): (key, size, expiration) of every ITEM line
RECURSIVE ItemTriples(_)
ItemTriples(t) ==
    IF t = <<>> THEN <<>>
    ELSE IF Head(t)[1] = "ITEM"
         THEN << <<Head(t)[2], Head(t)[3], Head(t)[4]>> >> \o ItemTriples(Tail(t))
         ELSE ItemTriples(Tail(t))

\* the strings that occur in items, in the order Python compares str
LexOrder == <<"0 s", "1 b", "10 b", "123 s", "456 s", "5 b", "9 b", "WEEKEND", "bar", "foo", "k">>
Rank(x) == CHOOSE n \in 1..Len(LexOrder) : LexOrder[n] = x

\* a < b for two tuples of three strings, as Python compares tuples
TupleLess(a, b) ==
    \/ Rank(a[1]) < Rank(b[1])
    \/ a[1] = b[1] /\ Rank(a[2]) < Rank(b[2])
    \/ a[1] = b[1] /\ a[2] = b[2] /\ Rank(a[3]) < Rank(b[3])

\* sorted(keys): a stable sort by the whole tuple (insertion after the last
\* element that is not greater)
RECURSIVE Sorted(_)
Sorted(q) ==
    IF q = <<>> THEN <<>>
    ELSE LET n == Len(q)
             x == q[n]
             done == Sorted(SubSeq(q, 1, n - 1))
             k == Cardinality({m \in 1..Len(done) : ~TupleLess(x, done[m])})
         IN SubSeq(done, 1, k) \o <<x>> \o SubSeq(done, k + 1, Len(done))

\* self._client: the attribute of the Instance when it has one, the class
\* attribute otherwise; 0 is None, a connection is its number
ClientOf(i) == IF instClient[i] = -1 THEN classClient ELSE instClient[i]

SetClient_Class(i, c) == [inst |-> instClient, cls |-> c]

\* self._client = c, as seen by a later ClientOf: the assignment makes an
\* attribute of the Instance
SetClient(i, c) == [inst |-> [instClient EXCEPT ![i] = c], cls |-> classClient]

\* _read_until("END") on a connection whose unread tokens are q, after the
\* write of cmd: a server that is there appends its reply; read_until returns
\* the tokens up to the first END and leaves the rest; on a stream that has
\* ended it returns what is left, or raises EOFError when nothing is
Command1(q, cmd, dead) ==
    LET reply == IF dead THEN <<>> ELSE ReplyTo(cmd)
        all == q \o reply
    IN IF HasEnd(all)
       THEN [text |-> SubSeq(all, 1, FirstEnd(all)),
             stream |-> SubSeq(all, FirstEnd(all) + 1, Len(all)),
             reply |-> reply, exc |-> "none"]
       ELSE IF all = <<>>
       THEN [text |-> <<>>, stream |-> <<>>, reply |-> reply, exc |-> "EOFError"]
       ELSE [text |-> all, stream |-> <<>>, reply |-> reply, exc |-> "none"]

\* the run of an operation so far: unread tokens, commands written, replies
\* the server gave, texts command() returned, exception raised, value
Run0(q) == [stream |-> q, cmds |-> <<>>, replies |-> <<>>, texts |-> <<>>,
            exc |-> "none", value |-> <<>>]

\* the one element of a set of one element
Only(S) == CHOOSE x \in S : TRUE

\* command(cmd) within a run
Command(r, cmd, dead) ==
    IF r.exc # "none" THEN r
    ELSE Only({ [stream |-> c.stream, cmds |-> Append(r.cmds, cmd),
                 replies |-> Append(r.replies, c.reply), texts |-> Append(r.texts, c.text),
                 exc |-> c.exc, value |-> c.text] :
                c \in {Command1(r.stream, cmd, dead)} })

\* the text the last command of a run returned
LastText(r) == r.texts[Len(r.texts)]

\* for id in ids: for key in _key_regex.findall(self.command(cmd % (id, limit)))
RECURSIVE DumpAll(_, _, _)
DumpAll(r, ids, dead) ==
    IF ids = <<>> \/ r.exc # "none" THEN r
    ELSE Only({ DumpAll(r2, Tail(ids), dead) :
                r2 \in { IF c.exc = "none"
                         THEN [c EXCEPT !.value = r.value \o ItemTriples(LastText(c))]
                         ELSE [c EXCEPT !.value = r.value] :
                         c \in {Command(r, <<"stats cachedump", Head(ids), DumpLimit>>, dead)} } })

\* slab_ids()
RunSlabIds(q, dead) ==
    Only({ IF c.exc = "none" THEN [c EXCEPT !.value = SlabIds(LastText(c))] ELSE c :
           c \in {Command(Run0(q), <<"stats items">>, dead)} })

\* key_details(sort, limit)
RunKeyDetails(q, sort, dead) ==
    Only({ IF s0.exc # "none" THEN s0
           ELSE Only({ IF d.exc = "none" /\ sort THEN [d EXCEPT !.value = Sorted(d.value)] ELSE d :
                       d \in {DumpAll([s0 EXCEPT !.value = <<>>], s0.value, dead)} }) :
           s0 \in {RunSlabIds(q, dead)} })

\* keys(sort, limit)
RunKeys(q, sort, dead) ==
    Only({ IF d.exc # "none" THEN d
           ELSE [d EXCEPT !.value = [n \in 1..Len(d.value) |-> d.value[n][1]]] :
           d \in {RunKeyDetails(q, sort, dead)} })

\* stats()
RunStats(q, dead) ==
    Only({ IF c.exc = "none" THEN [c EXCEPT !.value = StatsOf(LastText(c))] ELSE c :
           c \in {Command(Run0(q), <<"stats">>, dead)} })

\* close(): _write("quit"), nothing is read
RunClose(q) == [Run0(q) EXCEPT !.cmds = << <<"quit">> >>]

\* the operations of an Instance
Ops ==
    { <<"stats">>, <<"slab_ids">>, <<"close">>,
      <<"key_details", TRUE>>, <<"key_details", FALSE>>, <<"keys", TRUE>>, <<"keys", FALSE>> }

\* the run of operation op on a connection whose unread tokens are q
Run(op, q, dead) ==
    IF op[1] = "stats" THEN RunStats(q, dead)
    ELSE IF op[1] = "slab_ids" THEN RunSlabIds(q, dead)
    ELSE IF op[1] = "key_details" THEN RunKeyDetails(q, op[2], dead)
    ELSE IF op[1] = "keys" THEN RunKeys(q, op[2], dead)
    ELSE RunClose(q)

\* the last operation: the Instance, the operation, self._client before it
\* (0 is None), the connection it used (0 is none) and its run
NoOp == [inst |-> 0, op |-> <<"none">>, was |-> 0, conn |-> 0, run |-> Run0(<<>>)]

\* no Instance constructed
InstIdle ==
    /\ classClient = 0
    /\ instClient = [i \in Insts |-> -1]
    /\ made = {}
    /\ opened = [i \in Insts |-> 0]
    /\ nextConn = 0
    /\ stream = [c \in Conns |-> <<>>]
    /\ quit = [c \in Conns |-> FALSE]
    /\ last = NoOp

\* nothing discovered, no Instance constructed, nothing collected
Idle ==
    /\ ports = {}
    /\ todo = {}
    /\ port = 0
    /\ client = [p \in Ports |-> "None"]
    /\ closeCalled = [p \in Ports |-> FALSE]
    /\ peer = [p \in Ports |-> "idle"]
    /\ wire = [p \in Ports |-> <<>>]
    /\ cookedq = [p \in Ports |-> <<>>]
    /\ eof = [p \in Ports |-> FALSE]
    /\ fate = [p \in Ports |-> "none"]
    /\ text = <<>>
    /\ stats = <<>>
    /\ data = <<>>
    /\ result = Unset
    /\ posted = 0

Init ==
    /\ pc = "main"
    /\ Idle
    /\ InstIdle
    /\ cache = [slabs |-> <<>>, items |-> <<>>]
    /\ wrapIn = <<>>
    /\ wrapOut = NoCall
    /\ wrapAgain = NoCall

\* except: logging.exception(msg); continue -- the port is skipped
Skip(why) ==
    /\ fate' = [fate EXCEPT ![port] = why]
    /\ pc' = "for"

\* ports = MemcachedStats.get_instances(); if not ports: return
GetInstances ==
    /\ pc = "main"
    /\ \E ps \in SUBSET Ports :
        /\ ports' = ps
        /\ IF ps = {}
           THEN /\ result' = None
                /\ pc' = "returned"
                /\ todo' = todo
           ELSE /\ result' = result
                /\ pc' = "for"
                /\ todo' = ps
    /\ UNCHANGED <<port, client, closeCalled, peer, wire, cookedq, eof, fate,
                   text, stats, data, posted, wrapIn, wrapOut, wrapAgain, instVars>>

\* for port in ports: the next port, in the set's iteration order
ForNext ==
    /\ pc = "for"
    /\ \E p \in todo :
        /\ port' = p
        /\ todo' = todo \ {p}
    /\ pc' = "connect"
    /\ UNCHANGED <<ports, client, closeCalled, peer, wire, cookedq, eof, fate,
                   text, stats, data, result, posted, wrapIn, wrapOut, wrapAgain, instVars>>

\* the loop is exhausted: return data
ForDone ==
    /\ pc = "for"
    /\ todo = {}
    /\ result' = List(data)
    /\ pc' = "returned"
    /\ UNCHANGED <<ports, todo, port, client, closeCalled, peer, wire, cookedq, eof, fate, text, stats, data, posted, wrapIn, wrapOut, wrapAgain, instVars>>

\* conn.stats() -> command('stats') -> _write -> self.client: telnetlib.Telnet(...)
\* connects
ClientOpen ==
    /\ pc = "connect"
    /\ client' = [client EXCEPT ![port] = "open"]
    /\ peer' = [peer EXCEPT ![port] = "up"]
    /\ pc' = "write"
    /\ UNCHANGED <<ports, todo, port, closeCalled, wire, cookedq, eof, fate,
                   text, stats, data, result, posted, wrapIn, wrapOut, wrapAgain, instVars>>

\* telnetlib.Telnet(...) raises: connection refused, or no answer within timeout
ClientFail ==
    /\ pc = "connect"
    /\ \E why \in {"refused", "connect_timeout"} : Skip(why)
    /\ UNCHANGED <<ports, todo, port, client, closeCalled, peer, wire, cookedq, eof, text, stats, data, result, posted, wrapIn, wrapOut, wrapAgain, instVars>>

\* _write: self.client.write(b"stats\n") succeeds; a server that is up queues its reply
WriteStats ==
    /\ pc = "write"
    /\ IF peer[port] = "up"
       THEN \E r \in StatsReplies : wire' = [wire EXCEPT ![port] = r]
       ELSE wire' = wire
    /\ pc' = "read"
    /\ UNCHANGED <<ports, todo, port, client, closeCalled, peer, cookedq, eof, fate, text, stats, data, result, posted, wrapIn, wrapOut, wrapAgain, instVars>>

\* _write: self.client.write raises (the peer has gone)
WriteStatsFail ==
    /\ pc = "write"
    /\ peer[port] \in {"closed", "reset"}
    /\ Skip("write_error")
    /\ UNCHANGED <<ports, todo, port, client, closeCalled, peer, wire, cookedq, eof, text, stats, data, result, posted, wrapIn, wrapOut, wrapAgain, instVars>>

\* the server of the current port sends its next segment and read_until,
\* waiting in select, receives it
ServerSend ==
    /\ pc = "read"
    /\ peer[port] = "up"
    /\ wire[port] # <<>>
    /\ LET n == Min(MaxSegment, Len(wire[port]))
       IN /\ cookedq' = [cookedq EXCEPT ![port] = @ \o SubSeq(wire[port], 1, n)]
          /\ wire' = [wire EXCEPT ![port] = SubSeq(@, n + 1, Len(@))]
    /\ UNCHANGED <<pc, ports, todo, port, client, closeCalled, peer, eof, fate,
                   text, stats, data, result, posted, wrapIn, wrapOut, wrapAgain, instVars>>

\* the server of the current port closes the connection ("closed"), aborts it
\* ("reset") or stops sending for good ("silent"); what it had not sent is lost
ServerStop ==
    /\ pc \in {"write", "read", "close"}
    /\ peer[port] = "up"
    /\ \E how \in {"closed", "reset", "silent"} : peer' = [peer EXCEPT ![port] = how]
    /\ wire' = [wire EXCEPT ![port] = <<>>]
    /\ UNCHANGED <<pc, ports, todo, port, client, closeCalled, cookedq, eof, fate, text, stats, data, result, posted, wrapIn, wrapOut, wrapAgain, instVars>>

\* _read_until("END"): read_until finds the token and returns the text up to
\* and including it; what follows stays in cookedq
ReadUntilFound ==
    /\ pc = "read"
    /\ HasEnd(cookedq[port])
    /\ LET i == FirstEnd(cookedq[port])
       IN /\ text' = SubSeq(cookedq[port], 1, i)
          /\ cookedq' = [cookedq EXCEPT ![port] = SubSeq(@, i + 1, Len(@))]
    /\ pc' = "wrap"
    /\ UNCHANGED <<ports, todo, port, client, closeCalled, peer, wire, eof, fate, stats, data, result, posted, wrapIn, wrapOut, wrapAgain, instVars>>

\* _read_until("END"): the stream ends before the token. read_until falls back
\* to read_very_lazy(), which returns what was received; it raises EOFError
\* only when nothing was
ReadUntilEof ==
    /\ pc = "read"
    /\ ~HasEnd(cookedq[port])
    /\ peer[port] = "closed"
    /\ eof' = [eof EXCEPT ![port] = TRUE]
    /\ IF cookedq[port] = <<>>
       THEN /\ Skip("eof_error")
            /\ UNCHANGED <<text, cookedq>>
       ELSE /\ text' = cookedq[port]
            /\ cookedq' = [cookedq EXCEPT ![port] = <<>>]
            /\ pc' = "wrap"
            /\ fate' = fate
    /\ UNCHANGED <<ports, todo, port, client, closeCalled, peer, wire, stats, data,
                   result, posted, wrapIn, wrapOut, wrapAgain, instVars>>

\* _read_until("END"): recv raises ConnectionResetError
ReadUntilReset ==
    /\ pc = "read"
    /\ ~HasEnd(cookedq[port])
    /\ peer[port] = "reset"
    /\ Skip("read_error")
    /\ UNCHANGED <<ports, todo, port, client, closeCalled, peer, wire, cookedq, eof, text, stats, data, result, posted, wrapIn, wrapOut, wrapAgain, instVars>>

\* stats = wrap_stats(conn.stats())
Normalize ==
    /\ pc = "wrap"
    /\ LET w == wrap_stats(StatsOf(text))
       IN IF w.raised = "none"
          THEN /\ stats' = w.ret
               /\ pc' = "close"
               /\ fate' = fate
          ELSE /\ stats' = stats
               /\ Skip("wrap_error")
    /\ UNCHANGED <<ports, todo, port, client, closeCalled, peer, wire, cookedq, eof, text, data, result, posted, wrapIn, wrapOut, wrapAgain, instVars>>

\* conn.close(): _write("quit") succeeds; then for key in stats: ... data.append(i)
CloseAndEmit ==
    /\ pc = "close"
    /\ closeCalled' = [closeCalled EXCEPT ![port] = TRUE]
    /\ data' = data \o Points(port, stats)
    /\ fate' = [fate EXCEPT ![port] = "ok"]
    /\ pc' = "for"
    /\ UNCHANGED <<ports, todo, port, client, peer, wire, cookedq, eof, text,
                   stats, result, posted, wrapIn, wrapOut, wrapAgain, instVars>>

\* conn.close(): the write of "quit" raises (the peer has gone); the exception
\* leaves close() and the try block
CloseFail ==
    /\ pc = "close"
    /\ peer[port] \in {"closed", "reset"}
    /\ closeCalled' = [closeCalled EXCEPT ![port] = TRUE]
    /\ Skip("close_error")
    /\ UNCHANGED <<ports, todo, port, client, peer, wire, cookedq, eof, text,
                   stats, data, result, posted, wrapIn, wrapOut, wrapAgain, instVars>>

\* __main__: if result: requests.post(...) -- a failure of the post is logged
Post ==
    /\ pc = "returned"
    /\ Truthy(result)
    /\ posted' = posted + 1
    /\ pc' = "exit"
    /\ UNCHANGED <<ports, todo, port, client, closeCalled, peer, wire, cookedq, eof, fate, text, stats, data, result, wrapIn, wrapOut, wrapAgain, instVars>>

\* __main__: result is None or empty, nothing is sent
NoPost ==
    /\ pc = "returned"
    /\ ~Truthy(result)
    /\ pc' = "exit"
    /\ UNCHANGED <<ports, todo, port, client, closeCalled, peer, wire, cookedq, eof, fate, text, stats, data, result, posted, wrapIn, wrapOut, wrapAgain, instVars>>

Next ==
    \/ GetInstances \/ ForNext \/ ForDone
    \/ ClientOpen \/ ClientFail
    \/ WriteStats \/ WriteStatsFail
    \/ ServerSend \/ ServerStop
    \/ ReadUntilFound \/ ReadUntilEof \/ ReadUntilReset
    \/ Normalize \/ CloseAndEmit \/ CloseFail
    \/ Post \/ NoPost

Spec == Init /\ [][Next]_vars

\* direct calls of wrap_stats on every input of WrapInputs
WrapSpecInit ==
    /\ Idle
    /\ InstIdle
    /\ cache = [slabs |-> <<>>, items |-> <<>>]
    /\ WrapInit

WrapNext == WrapCall \/ WrapAgain

SpecWrap == WrapSpecInit /\ [][WrapNext]_vars

---------------------------------------------------------------------------
(* Vocabulary of the properties *)

\* collect_instances has returned
Returned == pc \in {"returned", "exit"}

\* indices of the points of data that carry the tag of port p
PointsOf(p) == {i \in 1..Len(data) : data[i].tags = Tags(p)}

\* the environment made port p fail: the connection was refused or timed out,
\* a write or read raised, or the stream ended before END
PortFailed(p) ==
    \/ fate[p] \in {"refused", "connect_timeout", "write_error", "eof_error", "read_error"}
    \/ eof[p]

\* the keys wrap_stats derives, in the order it computes them, and the keys
\* each of them is computed from
Derived == <<"usage", "get_hit_ratio", "incr_hit_ratio", "decr_hit_ratio", "delete_hit_ratio">>
SourcesOf(i) ==
    IF i = 1 THEN {"bytes", "limit_maxbytes"}
    ELSE {HitOps[i - 1] \o "_hits", HitOps[i - 1] \o "_misses"}
DerivedKeys == {Derived[i] : i \in 1..5}

WrapDone == pc = "wrap_done"
WrapTwice == pc = "wrap_twice"
MissingRequired == RequiredKeys \ Keys(wrapIn) # {}

\* the integer a key of the input of wrap_stats carries
InVal(k) == Get(wrapIn, k)[2]

\* wrap_stats gets to the division of usage with a zero divisor
ZeroLimit ==
    /\ {"pid", "time", "bytes", "limit_maxbytes"} \subseteq Keys(wrapIn)
    /\ InVal("limit_maxbytes") = 0

\* v is the text of 100 * h / (h + m), or of the zero ratio when h + m = 0
IsRatio(v, h, m) ==
    IF h + m = 0 THEN v = <<"float", 0, 1>>
    ELSE /\ v[1] = "float"
         /\ v[3] > 0
         /\ v[2] * (h + m) = 100 * h * v[3]
         /\ Gcd(v[2], v[3]) = 1

---------------------------------------------------------------------------
(* MemcachedStats used directly *)

\* tokens a connection may hold unread before the caller stops issuing commands
MaxBacklog == 1

InstInit ==
    /\ pc = "inst"
    /\ Idle
    /\ InstIdle
    /\ cache \in Caches
    /\ wrapIn = <<>>
    /\ wrapOut = NoCall
    /\ wrapAgain = NoCall

collectVars == <<pc, ports, todo, port, client, closeCalled, peer, wire, cookedq, eof,
                 fate, text, stats, data, result, posted, wrapIn, wrapOut, wrapAgain>>

\* MemcachedStats(host, port, timeout): the next Instance
Construct ==
    /\ pc = "inst"
    /\ Cardinality(made) < MaxInsts
    /\ LET i == Cardinality(made) + 1
       IN /\ made' = made \cup {i}
          /\ last' = [NoOp EXCEPT !.inst = i, !.op = <<"__init__">>]
    /\ UNCHANGED <<collectVars, cache, classClient, instClient, opened, nextConn, stream, quit>>

\* an operation of Instance i: the first access of self.client connects, every
\* later one returns the connection kept; the commands are written and
\* their replies read on it; quit makes the server close the connection
Call(i, op) ==
    /\ pc = "inst"
    /\ i \in made
    /\ LET was == ClientOf(i)
           c == IF was = 0 THEN nextConn + 1 ELSE was
       IN /\ c \in Conns
          /\ Len(stream[c]) <= MaxBacklog
          /\ \E run \in {Run(op, stream[c], quit[c])}, set \in {SetClient(i, c)} :
                /\ IF was = 0
                   THEN /\ instClient' = set.inst
                        /\ classClient' = set.cls
                        /\ nextConn' = c
                        /\ opened' = [opened EXCEPT ![i] = @ + 1]
                   ELSE UNCHANGED <<instClient, classClient, nextConn, opened>>
                /\ stream' = [stream EXCEPT ![c] = run.stream]
                /\ quit' = [quit EXCEPT ![c] = @ \/ op[1] = "close"]
                /\ last' = [inst |-> i, op |-> op, was |-> was, conn |-> c, run |-> run]
    /\ UNCHANGED <<collectVars, cache, made>>

\* any operation of an Instance without connection: telnetlib.Telnet raises
\* in self.client, self._client stays None
CallConnectFail(i) ==
    /\ pc = "inst"
    /\ i \in made
    /\ ClientOf(i) = 0
    /\ last' = [inst |-> i, op |-> <<"client">>, was |-> 0, conn |-> 0,
                run |-> [Run0(<<>>) EXCEPT !.exc = "ConnectionRefusedError"]]
    /\ UNCHANGED <<collectVars, cache, classClient, instClient, made, opened, nextConn, stream, quit>>

\* any operation on a connection the server has closed: the write raises in
\* _write
CallWriteFail(i) ==
    /\ pc = "inst"
    /\ i \in made
    /\ ClientOf(i) # 0
    /\ quit[ClientOf(i)]
    /\ last' = [inst |-> i, op |-> <<"_write">>, was |-> ClientOf(i), conn |-> ClientOf(i),
                run |-> [Run0(stream[ClientOf(i)]) EXCEPT !.exc = "BrokenPipeError"]]
    /\ UNCHANGED <<collectVars, cache, classClient, instClient, made, opened, nextConn, stream, quit>>

InstNext ==
    \/ Construct
    \/ \E i \in Insts, op \in Ops : Call(i, op)
    \/ \E i \in Insts : CallConnectFail(i)
    \/ \E i \in Insts : CallWriteFail(i)

SpecInst == InstInit /\ [][InstNext]_vars

---------------------------------------------------------------------------
(* C1: when collect_instances returns, every discovered port has been polled, *)
(* the list holds the points of every port polled without failure and no     *)
(* point of a port that failed (refused, read or protocol error, timeout).   *)
C1_FailureIsolation ==
    (Returned /\ result.kind = "list") =>
        \A p \in ports :
            /\ fate[p] # "none"
            /\ PortFailed(p) => PointsOf(p) = {}
            /\ (fate[p] = "ok" /\ ~PortFailed(p)) => PointsOf(p) # {}

(* C2: every connection an Instance opened has had close() invoked on it once *)
(* the processing of its port is over, whichever way it ended.                *)
C2_EveryConnectionClosed ==
    \A p \in Ports :
        (client[p] = "open" /\ fate[p] \in {"ok", "eof_error", "read_error", "wrap_error"})
            => closeCalled[p]

(* C3: command() never returns a text that lacks the final END: a stream that *)
(* ends early makes it fail, and that port contributes no point.              *)
C3_EarlyEofFails ==
    /\ pc = "wrap" => (text # <<>> /\ text[Len(text)] = EndToken)
    /\ \A p \in Ports : eof[p] => (PointsOf(p) = {} /\ fate[p] # "ok")

(* C4, as claimed: with a required source key absent, wrap_stats returns the *)
(* input unmodified.                                                         *)
C4_ReturnsInputUnmodified ==
    (WrapDone /\ MissingRequired) => wrapOut.ret = wrapIn

(* C4, amended: with a required source key absent, wrap_stats returns without *)
(* raising; every input key other than pid and time keeps its value and only  *)
(* derived keys are added; the input comes back unmodified when pid is        *)
(* absent, without pid when only time is absent, and otherwise without pid    *)
(* and time and with exactly the derived keys computed before the first       *)
(* absent source key (or the zero limit_maxbytes).                            *)
C4_PartialResult ==
    (WrapDone /\ MissingRequired) =>
        LET out == wrapOut.ret
            reached(i) ==
                /\ {"pid", "time"} \subseteq Keys(wrapIn)
                /\ \A j \in 1..i : SourcesOf(j) \subseteq Keys(wrapIn)
                /\ InVal("limit_maxbytes") # 0
        IN /\ wrapOut.raised = "none"
           /\ \A k \in Keys(wrapIn) \ {"pid", "time"} : Has(out, k) /\ Get(out, k) = Get(wrapIn, k)
           /\ Keys(out) \subseteq Keys(wrapIn) \cup DerivedKeys
           /\ "pid" \notin Keys(wrapIn) => out = wrapIn
           /\ "pid" \in Keys(wrapIn) => "pid" \notin Keys(out)
           /\ ("pid" \in Keys(wrapIn) /\ "time" \notin Keys(wrapIn)) => out = DictDel(wrapIn, "pid")
           /\ \A i \in 1..5 : Has(out, Derived[i]) <=> reached(i)
           /\ ~Has(out, Derived[5])

\* a required key is absent and the map returned differs from the input:
\* pid and time are gone and usage has been added
C4_Witness ==
    /\ WrapDone /\ MissingRequired
    /\ {"pid", "time"} \subseteq Keys(wrapIn)
    /\ "get_misses" \notin Keys(wrapIn)
    /\ Has(wrapOut.ret, "usage")
    /\ ~Has(wrapOut.ret, "pid")
    /\ wrapOut.ret # wrapIn

(* C5: the map wrap_stats returns contains neither pid nor time. *)
C5_PidTimeRemoved ==
    WrapDone => ("pid" \notin Keys(wrapOut.ret) /\ "time" \notin Keys(wrapOut.ret))

(* C6: for an input with bytes, a non-zero limit_maxbytes and the eight      *)
(* hit/miss keys, with or without pid and time, the result holds             *)
(* usage = 100 * bytes / limit_maxbytes (50.0 for 50 and 100) and the four   *)
(* hit ratios.                                                               *)
C6_PidTimeAbsenceIsNoOp ==
    (WrapDone /\ ~MissingRequired /\ InVal("limit_maxbytes") # 0) =>
        LET out == wrapOut.ret
        IN /\ DerivedKeys \subseteq Keys(out)
           /\ IsRatio(Get(out, "usage"), InVal("bytes"), InVal("limit_maxbytes") - InVal("bytes"))
           /\ (InVal("bytes") = 50 /\ InVal("limit_maxbytes") = 100)
                 => Get(out, "usage") = <<"float", 50, 1>>

C8_OnePointPerKey ==
    /\ \A i \in 1..Len(data) :
          /\ data[i].step = 60
          /\ \E p \in ports : fate[p] = "ok" /\ data[i].tags = "port=" \o ToString(p)
    /\ \A i, j \in 1..Len(data) :
          (data[i].tags = data[j].tags /\ data[i].metric = data[j].metric) => i = j
    /\ (pc = "for" /\ port # 0 /\ fate[port] = "ok") =>
          /\ Cardinality(PointsOf(port)) = Len(stats)
          /\ \A n \in 1..Len(stats) :
                LET key == stats[n][1]
                    isGauge == key \in gauges
                    name == IF isGauge THEN "mc." \o key ELSE "mc." \o key \o "_cps"
                IN Cardinality({i \in PointsOf(port) : data[i].metric = name}) = 1
                   /\ \A i \in PointsOf(port) :
                         data[i].metric = name =>
                            /\ data[i].counterType = (IF isGauge THEN "GAUGE" ELSE "COUNTER")
                            /\ data[i].value = <<stats[n][2][2], stats[n][2][3]>>

\* two ports were polled with success; the second has gauge points (usage
\* among them) and counter points
C8_Witness ==
    /\ pc = "for" /\ port # 0 /\ fate[port] = "ok"
    /\ \E q \in ports \ {port} : fate[q] = "ok" /\ PointsOf(q) # {}
    /\ \E i \in PointsOf(port) : data[i].metric = "mc.usage" /\ data[i].counterType = "GAUGE"
    /\ \E i \in PointsOf(port) : data[i].metric = "mc.cmd_get_cps" /\ data[i].counterType = "COUNTER"

(* C9: with no port discovered collect_instances returns None, no connection *)
(* is opened and nothing is posted; a run posts at most once, and only a     *)
(* list with at least one point.                                             *)
C9_NoPortsNoPost ==
    /\ posted <= 1
    /\ posted = 1 => (result.kind = "list" /\ Len(result.points) >= 1)
    /\ (pc # "main" /\ pc # "wrap_call" /\ ports = {}) =>
          /\ result = None
          /\ posted = 0
          /\ \A p \in Ports : client[p] = "None"

\* the program has ended with no port discovered, and nothing was posted
C9_Witness ==
    /\ pc = "exit" /\ ports = {}
    /\ result = None /\ posted = 0

(* C10: a failure of the write of quit never leaves close(): a port whose     *)
(* stats were fetched and normalized contributes its points all the same.    *)
C10_CloseBestEffort ==
    \A p \in Ports :
        (closeCalled[p] /\ ~eof[p]) => (fate[p] = "ok" /\ (stats # <<>> => PointsOf(p) # {}))

(* C15: wrap_stats applied to the map wrap_stats returned returns that map:  *)
(* nothing is raised, usage and the hit ratios keep their values, pid and    *)
(* time do not come back.                                                    *)
C15_Idempotent ==
    WrapTwice =>
        /\ wrapAgain.raised = "none"
        /\ wrapAgain.ret = wrapOut.ret
        /\ \A k \in DerivedKeys :
              Has(wrapOut.ret, k) => (Has(wrapAgain.ret, k) /\ Get(wrapAgain.ret, k) = Get(wrapOut.ret, k))
        /\ \A k \in DroppedKeys : ~Has(wrapOut.ret, k) => ~Has(wrapAgain.ret, k)

\* a map with usage and the four ratios, without pid and time, has been
\* normalized again
C15_Witness ==
    /\ WrapTwice
    /\ DerivedKeys \subseteq Keys(wrapOut.ret)
    /\ Keys(wrapOut.ret) \cap DroppedKeys = {}
    /\ Get(wrapAgain.ret, "usage") = <<"float", 50, 1>>

(* C16: wrap_stats returns a map and raises nothing for every input; when    *)
(* the division of usage has a zero limit_maxbytes (pid, time and bytes      *)
(* present), the map returned is the input without pid and time, with        *)
(* neither usage nor any hit ratio.                                          *)
C16_NeverRaises ==
    WrapDone =>
        /\ wrapOut.raised = "none"
        /\ ZeroLimit =>
              /\ wrapOut.ret = DictDel(DictDel(wrapIn, "pid"), "time")
              /\ Keys(wrapOut.ret) \cap (DroppedKeys \cup DerivedKeys) = {}

\* limit_maxbytes = 0 with every key present: the map comes back without
\* pid, time and the derived keys
C16_Witness ==
    /\ WrapDone
    /\ ZeroLimit /\ ~MissingRequired
    /\ wrapOut.raised = "none"
    /\ Keys(wrapOut.ret) = Keys(wrapIn) \ DroppedKeys

(* C12: collect_instances never blocks for ever: in every state before the   *)
(* exit of the program a step of the program is possible, so a peer that     *)
(* accepted the connection and sends nothing more makes the read fail and    *)
(* the loop go on to the next port.                                          *)
C12_NeverBlocks ==
    pc # "exit" => ENABLED Next

\* the last step was an operation of Instance i
Called(i) == last.inst = i /\ last.op[1] \notin {"none", "__init__"}

(* C11: constructing an Instance opens no connection; an operation of an    *)
(* Instance without connection opens one, every later operation uses the    *)
(* connection the Instance has; an Instance never opens a second one, and   *)
(* no two Instances hold the same connection.                               *)
C11_LazyCachedConnection ==
    /\ \A i \in Insts : opened[i] <= 1
    /\ \A i \in Insts : (opened[i] = 0) <=> (ClientOf(i) = 0)
    /\ \A i \in Insts \ made : opened[i] = 0
    /\ last.op[1] = "__init__" => opened[last.inst] = 0
    /\ \A i \in Insts : Called(i) =>
          /\ last.was # 0 => (last.conn = last.was /\ ClientOf(i) = last.was)
          /\ (last.was = 0 /\ last.conn # 0) => (opened[i] = 1 /\ ClientOf(i) = last.conn)
    /\ \A i, j \in Insts : (i # j /\ ClientOf(i) # 0) => ClientOf(i) # ClientOf(j)

\* two Instances hold a connection each, and the last operation, a
\* key_details of several commands, ran on the connection made earlier
C11_Witness ==
    /\ \A i \in Insts : opened[i] = 1
    /\ last.op[1] = "key_details"
    /\ last.was # 0
    /\ Len(last.run.cmds) > 1

\* the last step was an operation that returned, on a connection the server
\* had not closed
Answered == last.conn # 0 /\ last.run.exc = "none" /\ \A k \in 1..Len(last.run.replies) : last.run.replies[k] # <<>>

\* a reply up to and including its terminating END
ThroughEnd(reply) == SubSeq(reply, 1, Len(reply) - 1)

(* C13: the text the k-th command of an operation returns is the server's   *)
(* reply to that command up to and including its terminating END, with      *)
(* nothing of an earlier reply before it, also when END occurs inside a     *)
(* reply.                                                                   *)
C13_Aligned ==
    Answered =>
        \A k \in 1..Len(last.run.texts) :
            last.run.texts[k] = ThroughEnd(last.run.replies[k])

\* the (key, size, expiration) of the items the server holds in slab id
HeldIn(id) ==
    IF cache.items[id] = Weekend THEN << <<"WEEKEND", "1 b", "0 s">> >>
    ELSE [n \in 1..Len(cache.items[id]) |-> Tail(cache.items[id][n])]

\* the items of the slabs ids, slab after slab
RECURSIVE HeldInAll(_)
HeldInAll(ids) == IF ids = <<>> THEN <<>> ELSE HeldIn(Head(ids)) \o HeldInAll(Tail(ids))

\* q sorted by key name, triples of one key name in the order of q
RECURSIVE StableByKey(_)
StableByKey(q) ==
    IF q = <<>> THEN <<>>
    ELSE LET n == Len(q)
             x == q[n]
             done == StableByKey(SubSeq(q, 1, n - 1))
             k == Cardinality({m \in 1..Len(done) : Rank(done[m][1]) <= Rank(x[1])})
         IN SubSeq(done, 1, k) \o <<x>> \o SubSeq(done, k + 1, Len(done))

(* C14: key_details writes stats items and then one stats cachedump per     *)
(* slab id reported, in the order reported; without sort it returns the     *)
(* items of these slabs in that order, with sort the same items stably      *)
(* sorted by key name; keys returns the key names of the same sequence.     *)
C14_KeyDetails ==
    (Answered /\ last.op[1] \in {"key_details", "keys"}) =>
        LET held == HeldInAll(cache.slabs)
            want == IF last.op[2] THEN StableByKey(held) ELSE held
        IN /\ last.run.cmds = << <<"stats items">> >> \o
                  [n \in 1..Len(cache.slabs) |-> <<"stats cachedump", cache.slabs[n], DumpLimit>>]
           /\ last.op[1] = "key_details" => last.run.value = want
           /\ last.op[1] = "keys" => last.run.value = [n \in 1..Len(want) |-> want[n][1]]

(* C17: close() on an Instance that holds no connection opens none.         *)
C17_CloseOpensNothing ==
    (last.op[1] = "close" /\ last.was = 0) => opened[last.inst] = 0

====
